---- MODULE Spec2Model ----
(***************************************************************************)
(* Model of QuantumPortfolioOptimizer (src/lib/server-database-operations  *)
(* .ts, lines 311-500): the constructor, optimizePortfolio with its        *)
(* gradient loop quantumOptimization, and calculatePortfolioMetrics.       *)
(*                                                                         *)
(* JavaScript numbers are modelled as decimal floating-point values with   *)
(* an eight digit mantissa, together with NaN and the two infinities, and  *)
(* every arithmetic operator of the source is computed on them in the      *)
(* order the source computes it.                                           *)
(***************************************************************************)
EXTENDS Integers, Sequences, FiniteSets, TLC

(***************************************************************************)
(* Bounds of the model.                                                    *)
(***************************************************************************)
\* longest asset list handed to optimizePortfolio / calculatePortfolioMetrics
MaxAssets == 3

(***************************************************************************)
(* Numbers: [k, m, e] is m * 10^e when k = "fin"; k = "nan" is NaN and     *)
(* k = "inf" is +Infinity (m = 1) or -Infinity (m = -1).                   *)
(***************************************************************************)
MantMax == 10000 * 10000
MantMin == 1000 * 10000
Half4 == 100 * 100

NaN == [k |-> "nan", m |-> 0, e |-> 0]
PosInf == [k |-> "inf", m |-> 1, e |-> 0]
NegInf == [k |-> "inf", m |-> -1, e |-> 0]
Zero == [k |-> "fin", m |-> 0, e |-> 0]

IsNaN(a) == a.k = "nan"
IsInf(a) == a.k = "inf"
IsFinite(a) == a.k = "fin"

AbsInt(x) == IF x < 0 THEN -x ELSE x
SignInt(x) == IF x > 0 THEN 1 ELSE IF x < 0 THEN -1 ELSE 0

Pow10 == <<10, 100, 1000, 10000, 100000, 1000000, 10000000, 100000000, 1000000000>>

RECURSIVE NormMag(_, _)
NormMag(a, e) ==
  IF a >= MantMax THEN NormMag((a + 5) \div 10, e + 1)
  ELSE IF a < MantMin THEN NormMag(a * 10, e - 1)
  ELSE <<a, e>>

\* the number m * 10^e with its mantissa brought to eight digits
Norm(m, e) ==
  IF m = 0 THEN Zero
  ELSE LET p == NormMag(AbsInt(m), e)
       IN [k |-> "fin", m |-> SignInt(m) * p[1], e |-> p[2]]

\* a decimal literal of the source: Dec(2, -2) is 0.02
Dec(m, e) == Norm(m, e)

One == Dec(1, 0)
Two == Dec(2, 0)

Neg(a) == IF IsNaN(a) THEN NaN ELSE [a EXCEPT !.m = -a.m]

MathAbs(a) == IF IsNaN(a) THEN NaN ELSE [a EXCEPT !.m = AbsInt(a.m)]

\* mantissa m moved d digits to the right, truncating
ShiftRight(m, d) ==
  IF d = 0 THEN m
  ELSE IF d > 9 THEN 0
  ELSE SignInt(m) * (AbsInt(m) \div Pow10[d])

Add(a, b) ==
  IF IsNaN(a) \/ IsNaN(b) THEN NaN
  ELSE IF IsInf(a) /\ IsInf(b) THEN (IF a.m = b.m THEN a ELSE NaN)
  ELSE IF IsInf(a) THEN a
  ELSE IF IsInf(b) THEN b
  ELSE IF a.m = 0 THEN b
  ELSE IF b.m = 0 THEN a
  ELSE LET e == IF a.e > b.e THEN a.e ELSE b.e
           ma == ShiftRight(a.m * 10, e - a.e)
           mb == ShiftRight(b.m * 10, e - b.e)
       IN Norm(ma + mb, e - 1)

Sub(a, b) == Add(a, Neg(b))

Mul(a, b) ==
  IF IsNaN(a) \/ IsNaN(b) THEN NaN
  ELSE IF IsInf(a) \/ IsInf(b) THEN
    (LET s == SignInt(a.m) * SignInt(b.m)
     IN IF s = 0 THEN NaN ELSE [k |-> "inf", m |-> s, e |-> 0])
  ELSE IF a.m = 0 \/ b.m = 0 THEN Zero
  ELSE LET x == AbsInt(a.m)
           y == AbsInt(b.m)
           xh == x \div Half4
           xl == x % Half4
           yh == y \div Half4
           yl == y % Half4
           cross == xh * yl + xl * yh
           low == xl * yl
           t == (xh * yh) * 10 + ((cross + (low \div Half4)) \div 1000)
       IN Norm(SignInt(a.m) * SignInt(b.m) * t, a.e + b.e + 7)

RECURSIVE LongDiv(_, _, _, _)
LongDiv(r, d, n, q) ==
  IF n = 0 THEN q
  ELSE LongDiv((r * 10) % d, d, n - 1, q * 10 + ((r * 10) \div d))

Div(a, b) ==
  IF IsNaN(a) \/ IsNaN(b) THEN NaN
  ELSE IF IsInf(a) THEN
    (IF IsInf(b) THEN NaN
     ELSE [k |-> "inf", m |-> SignInt(a.m) * (IF b.m >= 0 THEN 1 ELSE -1), e |-> 0])
  ELSE IF IsInf(b) THEN Zero
  ELSE IF b.m = 0 THEN
    (IF a.m = 0 THEN NaN ELSE [k |-> "inf", m |-> SignInt(a.m), e |-> 0])
  ELSE IF a.m = 0 THEN Zero
  ELSE LET x == AbsInt(a.m)
           y == AbsInt(b.m)
           q == LongDiv(x % y, y, 8, x \div y)
       IN Norm(SignInt(a.m) * SignInt(b.m) * q, a.e - b.e - 8)

RECURSIVE IntSqrt(_, _, _)
IntSqrt(n, s, bit) ==
  IF bit = 0 THEN s
  ELSE LET t == s + bit
       IN IF t <= 46340 /\ t * t <= n THEN IntSqrt(n, t, bit \div 2)
          ELSE IntSqrt(n, s, bit \div 2)

RECURSIVE Newton(_, _, _)
Newton(a, x, n) ==
  IF n = 0 THEN x ELSE Newton(a, Mul(Dec(5, -1), Add(x, Div(a, x))), n - 1)

MathSqrt(a) ==
  IF IsNaN(a) THEN NaN
  ELSE IF IsInf(a) THEN (IF a.m > 0 THEN a ELSE NaN)
  ELSE IF a.m < 0 THEN NaN
  ELSE IF a.m = 0 THEN a
  ELSE LET odd == (a.e % 2) # 0
           m == IF odd THEN a.m * 10 ELSE a.m
           e == IF odd THEN a.e - 1 ELSE a.e
       IN Newton(a, Norm(IntSqrt(m, 0, 32768), e \div 2), 3)

\* a < b of the source: false when either side is NaN
Less(a, b) ==
  IF IsNaN(a) \/ IsNaN(b) THEN FALSE
  ELSE LET d == Sub(a, b) IN (~IsNaN(d)) /\ d.m < 0

LessEq(a, b) == (~IsNaN(a)) /\ (~IsNaN(b)) /\ ~Less(b, a)

MathMax(a, b) == IF IsNaN(a) \/ IsNaN(b) THEN NaN ELSE IF Less(a, b) THEN b ELSE a

MathMin(a, b) == IF IsNaN(a) \/ IsNaN(b) THEN NaN ELSE IF Less(b, a) THEN b ELSE a

\* truthiness of a number in `if (x)` and `x || y`
Truthy(a) == (~IsNaN(a)) /\ ~(IsFinite(a) /\ a.m = 0)

\* e^(-1/50)
ExpStep == [k |-> "fin", m |-> 98019867, e |-> -8]

RECURSIVE PowInt(_, _)
PowInt(q, n) ==
  IF n = 0 THEN One
  ELSE IF n % 2 = 0 THEN (LET h == PowInt(q, n \div 2) IN Mul(h, h))
  ELSE Mul(q, PowInt(q, n - 1))

\* Math.exp(-iteration / 50)
MathExpNeg50(iteration) == PowInt(ExpStep, iteration)

(***************************************************************************)
(* Optional values: an argument or field that may be absent (undefined).   *)
(***************************************************************************)
None == [some |-> FALSE, v |-> Zero]
Some(x) == [some |-> TRUE, v |-> x]

\* arg || dflt for an optional number
OrElse(arg, dflt) == IF arg.some /\ Truthy(arg.v) THEN arg.v ELSE dflt

(***************************************************************************)
(* Inputs of the model.                                                    *)
(***************************************************************************)
Asset(sym, r, vol) == [symbol |-> sym, expectedReturn |-> r, volatility |-> vol]

\* The assets callers draw from: two ordinary stocks (the first is
\* sampleAssets[0]), two low-volatility high-Sharpe assets and two
\* zero-volatility assets.
AssetPool ==
  << Asset("AAPL", Dec(12, -2), Dec(25, -2)),
     Asset("BND", Dec(8, -2), Dec(15, -2)),
     Asset("HIGH", Dec(1, 0), Dec(1, -2)),
     Asset("LOW", Dec(12, -2), Dec(1, -3)),
     Asset("CASH1", Dec(1, -1), Zero),
     Asset("CASH2", Dec(5, -2), Zero) >>

\* n consecutive assets of the pool, starting at position start
AssetList(start, n) ==
  [i \in 1..n |-> AssetPool[((start + i - 2) % Len(AssetPool)) + 1]]

AssetLists ==
  {AssetList(1, 0)} \cup
  {AssetList(start, n) : start \in 1..Len(AssetPool), n \in 1..MaxAssets}

Constraints(lo, hi) == [minWeight |-> lo, maxWeight |-> hi]

\* the constraints argument: absent, {0, 1}, {0.4, 0.6}, {0.05, 0.4} (the
\* initial constraints of the PortfolioOptimizer component), {minWeight: 0.4},
\* {maxWeight: 0.6} and {maxWeight: 0}
ConstraintArgs ==
  { None,
    Some(Constraints(Some(Zero), Some(One))),
    Some(Constraints(Some(Dec(4, -1)), Some(Dec(6, -1)))),
    Some(Constraints(Some(Dec(5, -2)), Some(Dec(4, -1)))),
    Some(Constraints(Some(Dec(4, -1)), None)),
    Some(Constraints(None, Some(Dec(6, -1)))),
    Some(Constraints(None, Some(Zero))) }

NoInt == [some |-> FALSE, v |-> 0]
SomeInt(n) == [some |-> TRUE, v |-> n]

\* the constructor calls: new QuantumPortfolioOptimizer(), (undefined, 3),
\* (0, 3), (2, 3) and (-0.5, 3)
ConstructorArgs ==
  { <<None, NoInt>>,
    <<None, SomeInt(3)>>,
    <<Some(Zero), SomeInt(3)>>,
    <<Some(Two), SomeInt(3)>>,
    <<Some(Dec(-5, -1)), SomeInt(3)>> }

\* weight vectors handed to calculatePortfolioMetrics for n assets
RECURSIVE SeqSum(_, _)
SeqSum(s, n) == IF n = 0 THEN Zero ELSE Add(SeqSum(s, n - 1), s[n])

WeightArgs(n) ==
  { [i \in 1..n |-> Div(One, Dec(n, 0))],
    [i \in 1..n |-> IF i = 1 THEN One ELSE Zero],
    [i \in 1..n |-> Zero] }

(***************************************************************************)
(* QuantumPortfolioOptimizer                                               *)
(***************************************************************************)
VARIABLES
  ctorRiskFreeRate,   \* the riskFreeRate argument given to the constructor
  ctorMaxIterations,  \* the maxIterations argument given to the constructor
  riskFreeRate,       \* this.riskFreeRate
  maxIterations,      \* this.maxIterations
  pc,                 \* "ready", "loop", "final", "returned", "thrown"
  assets,             \* the assets argument of the current call
  constraints,        \* the constraints argument of the current call
  covMatrix,          \* quantumOptimization: covMatrix
  weights,            \* quantumOptimization: weights (or the weights argument)
  newWeights,         \* quantumOptimization: newWeights of the last pass
  convergenceData,    \* quantumOptimization: convergenceData
  iteration,          \* quantumOptimization: the loop counter
  minWeight,          \* quantumOptimization: minWeight
  maxWeight,          \* quantumOptimization: maxWeight
  result,             \* the OptimizationResult returned by optimizePortfolio
  error,              \* the message of the Error thrown by optimizePortfolio
  metrics,            \* the triple returned by calculatePortfolioMetrics
  other               \* the locals of the other call on the same optimizer

\* the state of the application around the optimizer
VARIABLES
  csv,                \* the text returned by exportOptimizationResultsToCSV
  localStorage,       \* the item of localStorage under PortfolioStorage.STORAGE_KEY
  loading,            \* PortfolioOptimizer: loading
  componentAssets,    \* PortfolioOptimizer: assets
  currentPortfolioId, \* PortfolioOptimizer: currentPortfolioId
  isOptimizing,       \* PortfolioOptimizer: isOptimizing
  optimizationResult, \* PortfolioOptimizer: optimizationResult
  database,           \* the tables DatabaseOperations writes
  handlers            \* the invocations of handleOptimize: position and closure

optimizerVars ==
  << ctorRiskFreeRate, ctorMaxIterations, riskFreeRate, maxIterations, pc,
     assets, constraints, covMatrix, weights, newWeights, convergenceData,
     iteration, minWeight, maxWeight, result, error, metrics, other >>

exportVars == << csv >>

storageVars == << localStorage >>

pageVars ==
  << loading, componentAssets, currentPortfolioId, isOptimizing,
     optimizationResult, database, handlers >>

appVars == << exportVars, storageVars, pageVars >>

vars == << optimizerVars, appVars >>

\* private riskFreeRate = 0.02
DefaultRiskFreeRate == Dec(2, -2)
\* private maxIterations = 100
DefaultMaxIterations == 100
\* private tolerance = 1e-6
tolerance == Dec(1, -6)
\* const correlation = 0.3
correlation == Dec(3, -1)
\* 0.01 in the learning rate
BaseLearningRate == Dec(1, -2)

\* constructor: if (riskFreeRate) this.riskFreeRate = riskFreeRate
CtorRiskFreeRate(arg) == IF arg.some /\ Truthy(arg.v) THEN arg.v ELSE DefaultRiskFreeRate

\* constructor: if (maxIterations) this.maxIterations = maxIterations
CtorMaxIterations(arg) == IF arg.some /\ arg.v # 0 THEN arg.v ELSE DefaultMaxIterations

calculateCovarianceMatrixScaledDiagonal(a) ==
  [i \in 1..Len(a) |->
    [j \in 1..Len(a) |->
      Mul(Mul(correlation, a[i].volatility), a[j].volatility)]]

calculateCovarianceMatrix(a) ==
  [i \in 1..Len(a) |->
    [j \in 1..Len(a) |->
      IF i = j THEN Mul(a[i].volatility, a[i].volatility)
      ELSE Mul(Mul(correlation, a[i].volatility), a[j].volatility)]]

\* weights.reduce((sum, w, i) => sum + w * expectedReturns[i], 0)
RECURSIVE PortfolioReturn(_, _, _)
PortfolioReturn(w, r, n) ==
  IF n = 0 THEN Zero
  ELSE Add(PortfolioReturn(w, r, n - 1), Mul(w[n], r[n]))

\* the double loop portfolioVariance += weights[i] * weights[j] * covMatrix[i][j],
\* k counting the (i, j) pairs already added
RECURSIVE PortfolioVariance(_, _, _)
PortfolioVariance(w, c, k) ==
  IF k = 0 THEN Zero
  ELSE LET i == ((k - 1) \div Len(w)) + 1
           j == ((k - 1) % Len(w)) + 1
       IN Add(PortfolioVariance(w, c, k - 1), Mul(Mul(w[i], w[j]), c[i][j]))

PortfolioVolatility(w, c) == MathSqrt(PortfolioVariance(w, c, Len(w) * Len(w)))

\* (portfolioReturn - this.riskFreeRate) / portfolioVolatility
SharpeRatio(w, r, c, rf) ==
  Div(Sub(PortfolioReturn(w, r, Len(w)), rf), PortfolioVolatility(w, c))

objectiveFunctionNotNegated(w, r, c, rf) == SharpeRatio(w, r, c, rf)

\* return -sharpeRatio
objectiveFunction(w, r, c, rf) == Neg(SharpeRatio(w, r, c, rf))

\* varianceGradient += 2 * weights[j] * covMatrix[i][j]
RECURSIVE VarianceGradient(_, _, _, _)
VarianceGradient(w, c, i, n) ==
  IF n = 0 THEN Zero
  ELSE Add(VarianceGradient(w, c, i, n - 1), Mul(Mul(Two, w[n]), c[i][n]))

calculateGradientsAscent(w, r, c, rf) ==
  LET portfolioReturn == PortfolioReturn(w, r, Len(w))
      portfolioVolatility == PortfolioVolatility(w, c)
      denominator == Mul(portfolioVolatility, portfolioVolatility)
  IN [i \in 1..Len(w) |->
       LET varianceGradient == VarianceGradient(w, c, i, Len(w))
           volatilityGradient == Div(varianceGradient, Mul(Two, portfolioVolatility))
           numerator == Sub(Mul(r[i], portfolioVolatility),
                            Mul(Sub(portfolioReturn, rf), volatilityGradient))
       IN Div(numerator, denominator)]

calculateGradients(w, r, c, rf) ==
  LET portfolioReturn == PortfolioReturn(w, r, Len(w))
      portfolioVolatility == PortfolioVolatility(w, c)
      denominator == Mul(portfolioVolatility, portfolioVolatility)
  IN [i \in 1..Len(w) |->
       LET returnGradient == r[i]
           varianceGradient == VarianceGradient(w, c, i, Len(w))
           volatilityGradient == Div(varianceGradient, Mul(Two, portfolioVolatility))
           numerator == Sub(Mul(returnGradient, portfolioVolatility),
                            Mul(Sub(portfolioReturn, rf), volatilityGradient))
       IN Div(Neg(numerator), denominator)]

ExpectedReturns(a) == [i \in 1..Len(a) |-> a[i].expectedReturn]

\* 0.01 * Math.exp(-iteration / 50)
LearningRate(it) == Mul(BaseLearningRate, MathExpNeg50(it))

ClipSwapped(update, lo, hi) == MathMin(lo, MathMax(hi, update))

\* Math.max(minWeight, Math.min(maxWeight, update))
Clip(update, lo, hi) == MathMax(lo, MathMin(hi, update))

\* weights.map((w, i) => clip(w - learningRate * gradients[i]))
UpdateWeights(w, g, lr, lo, hi) ==
  [i \in 1..Len(w) |-> Clip(Sub(w[i], Mul(lr, g[i])), lo, hi)]

NormalizeSkipped(nw) == nw

\* newWeights.map((w) => w / sum)
Normalize(nw) ==
  LET sum == SeqSum(nw, Len(nw)) IN [i \in 1..Len(nw) |-> Div(nw[i], sum)]

\* Array(n).fill(1 / n)
UniformWeights(n) == [i \in 1..n |-> Div(One, Dec(n, 0))]

\* the weights a pass leaves: the clipped updates divided by their sum
NextWeights(w, r, c, rf, it, lo, hi) ==
  Normalize(UpdateWeights(w, calculateGradients(w, r, c, rf), LearningRate(it), lo, hi))

ConvergedWithoutAbs(newObjective, currentObjective) ==
  Less(Sub(newObjective, currentObjective), tolerance)

\* Math.abs(newObjective - currentObjective) < this.tolerance
Converged(newObjective, currentObjective) ==
  Less(MathAbs(Sub(newObjective, currentObjective)), tolerance)

PushConvergenceUnshift(data, currentObjective) == <<Neg(currentObjective)>> \o data

\* convergenceData.push(-currentObjective)
PushConvergence(data, currentObjective) == Append(data, Neg(currentObjective))

\* constraints.minWeight || 0   and   constraints.maxWeight || 1
EffectiveConstraints(arg) == IF arg.some THEN arg.v ELSE Constraints(None, None)
EffectiveMinWeight(arg) == OrElse(EffectiveConstraints(arg).minWeight, Zero)
EffectiveMaxWeightZero(arg) == OrElse(EffectiveConstraints(arg).maxWeight, Zero)

EffectiveMaxWeight(arg) == OrElse(EffectiveConstraints(arg).maxWeight, One)

NoResult ==
  [some |-> FALSE, optimalWeights |-> <<>>, expectedReturn |-> Zero,
   volatility |-> Zero, sharpeRatio |-> Zero, convergenceData |-> <<>>,
   iterations |-> 0]

NoMetrics ==
  [some |-> FALSE, expectedReturn |-> Zero, volatility |-> Zero, sharpeRatio |-> Zero]

NoError == ""

PortfolioMetricsCarriedVariance(a, w, rf) ==
  LET expectedReturns == ExpectedReturns(a)
      cov == calculateCovarianceMatrix(a)
      portfolioReturn == PortfolioReturn(w, expectedReturns, Len(w))
      carried == Mul(other.metrics.volatility, other.metrics.volatility)
      portfolioVolatility ==
        MathSqrt(Add(carried, PortfolioVariance(w, cov, Len(w) * Len(w))))
      sharpeRatio == Div(Sub(portfolioReturn, rf), portfolioVolatility)
  IN [some |-> TRUE,
      expectedReturn |-> portfolioReturn,
      volatility |-> portfolioVolatility,
      sharpeRatio |-> sharpeRatio]

\* calculatePortfolioMetrics as a function of its arguments and this.riskFreeRate
PortfolioMetrics(a, w, rf) ==
  LET expectedReturns == ExpectedReturns(a)
      cov == calculateCovarianceMatrix(a)
      portfolioReturn == PortfolioReturn(w, expectedReturns, Len(w))
      portfolioVolatility == PortfolioVolatility(w, cov)
      sharpeRatio == Div(Sub(portfolioReturn, rf), portfolioVolatility)
  IN [some |-> TRUE,
      expectedReturn |-> portfolioReturn,
      volatility |-> portfolioVolatility,
      sharpeRatio |-> sharpeRatio]

\* the orders of 1..n
Orders(n) == { q \in [1..n -> 1..n] : \A i, j \in 1..n : q[i] = q[j] => i = j }

OptimalWeightsSorted(w) ==
  LET q == CHOOSE q \in Orders(Len(w)) :
             \A i \in 1..(Len(w) - 1) : ~Less(w[q[i]], w[q[i + 1]])
  IN [i \in 1..Len(w) |-> w[q[i]]]

\* optimalWeights: weights
OptimalWeights(w) == w

FinalResultNegatedSharpe(w, data, a, c, rf) ==
  LET expectedReturns == ExpectedReturns(a)
      portfolioReturn == PortfolioReturn(w, expectedReturns, Len(w))
      portfolioVolatility == PortfolioVolatility(w, c)
  IN [some |-> TRUE,
      optimalWeights |-> OptimalWeights(w),
      expectedReturn |-> portfolioReturn,
      volatility |-> portfolioVolatility,
      sharpeRatio |-> objectiveFunction(w, expectedReturns, c, rf),
      convergenceData |-> data,
      iterations |-> Len(data)]

\* quantumOptimization after the loop: the final metrics and the returned object
FinalResult(w, data, a, c, rf) ==
  LET expectedReturns == ExpectedReturns(a)
      portfolioReturn == PortfolioReturn(w, expectedReturns, Len(w))
      portfolioVolatility == PortfolioVolatility(w, c)
      sharpeRatio == Div(Sub(portfolioReturn, rf), portfolioVolatility)
  IN [some |-> TRUE,
      optimalWeights |-> OptimalWeights(w),
      expectedReturn |-> portfolioReturn,
      volatility |-> portfolioVolatility,
      sharpeRatio |-> sharpeRatio,
      convergenceData |-> data,
      iterations |-> Len(data)]

\* the for loop of quantumOptimization from pass it on, run to its end;
\* ctx holds what the loop reads and does not change
RECURSIVE RunLoop(_, _, _, _)
RunLoop(w, data, it, ctx) ==
  IF ~(it < ctx.maxIterations)
  THEN [weights |-> w, convergenceData |-> data]
  ELSE LET currentObjective ==
             objectiveFunction(w, ctx.expectedReturns, ctx.covMatrix, ctx.riskFreeRate)
           next == NextWeights(w, ctx.expectedReturns, ctx.covMatrix, ctx.riskFreeRate,
                               it, ctx.minWeight, ctx.maxWeight)
           newObjective ==
             objectiveFunction(next, ctx.expectedReturns, ctx.covMatrix, ctx.riskFreeRate)
       IN IF Converged(newObjective, currentObjective)
          THEN [weights |-> next,
                convergenceData |-> PushConvergence(data, currentObjective)]
          ELSE RunLoop(next, PushConvergence(data, currentObjective), it + 1, ctx)

\* quantumOptimization as a function of its arguments and of the optimizer's
\* riskFreeRate and maxIterations: what one call alone returns
quantumOptimization(a, c, rf, maxIt) ==
  LET ctx == [expectedReturns |-> ExpectedReturns(a),
              covMatrix |-> calculateCovarianceMatrix(a),
              riskFreeRate |-> rf,
              maxIterations |-> maxIt,
              minWeight |-> EffectiveMinWeight(c),
              maxWeight |-> EffectiveMaxWeight(c)]
      run == RunLoop(UniformWeights(Len(a)), <<>>, 0, ctx)
  IN FinalResult(run.weights, run.convergenceData, a, ctx.covMatrix, rf)

\* the locals and the outcome of one call: they live in the call, not in the
\* optimizer object
Frame ==
  [pc |-> pc, assets |-> assets, constraints |-> constraints,
   covMatrix |-> covMatrix, weights |-> weights, newWeights |-> newWeights,
   convergenceData |-> convergenceData, iteration |-> iteration,
   minWeight |-> minWeight, maxWeight |-> maxWeight,
   result |-> result, error |-> error, metrics |-> metrics]

\* a call that has not started
FreshFrame ==
  [pc |-> "ready", assets |-> <<>>, constraints |-> None,
   covMatrix |-> <<>>, weights |-> <<>>, newWeights |-> <<>>,
   convergenceData |-> <<>>, iteration |-> 0,
   minWeight |-> Zero, maxWeight |-> Zero,
   result |-> NoResult, error |-> NoError, metrics |-> NoMetrics]

\* nothing has been exported
NoCsv == <<>>

\* localStorage.getItem gives null: nothing was ever stored under the key
NoItem == [some |-> FALSE, text |-> << >>]

\* useState<string | null>(null)
Null == "null"

\* the clicks on the Optimize button
Clicks == { "first", "second" }

\* no row in any table
EmptyDatabase == [portfolios |-> << >>, assets |-> << >>, optimization_results |-> << >>]

\* handleOptimize has not been invoked by that click
NoInvocation ==
  [pc |-> "idle", currentPortfolioId |-> Null, assets |-> << >>,
   portfolio |-> Null, result |-> NoResult]

Init ==
  /\ \E args \in ConstructorArgs :
       /\ ctorRiskFreeRate = args[1]
       /\ ctorMaxIterations = args[2]
       /\ riskFreeRate = CtorRiskFreeRate(args[1])
       /\ maxIterations = CtorMaxIterations(args[2])
  /\ pc = "ready"
  /\ assets = <<>>
  /\ constraints = None
  /\ covMatrix = <<>>
  /\ weights = <<>>
  /\ newWeights = <<>>
  /\ convergenceData = <<>>
  /\ iteration = 0
  /\ minWeight = Zero
  /\ maxWeight = Zero
  /\ result = NoResult
  /\ error = NoError
  /\ metrics = NoMetrics
  /\ other = FreshFrame
  /\ csv = NoCsv
  /\ localStorage = NoItem
  /\ loading = TRUE
  /\ componentAssets = << >>
  /\ currentPortfolioId = Null
  /\ isOptimizing = FALSE
  /\ optimizationResult = NoResult
  /\ database = EmptyDatabase
  /\ handlers = [h \in Clicks |-> NoInvocation]

\* the optimizer is constructed and its caller has made no call yet
CallerReady == pc = "ready"

TooFewAssetsOffByOne(a) == Len(a) < 1

\* optimizePortfolio: if (assets.length < 2) throw
TooFewAssets(a) == Len(a) < 2

LoopContinuesOffByOne(it, max) == it <= max

\* the loop test iteration < this.maxIterations
LoopContinues(it, max) == it < max

\* what optimizePortfolio writes up to the first loop test of
\* quantumOptimization
OptimizePortfolioCall(a, c) ==
  /\ CallerReady
  /\ assets' = a
  /\ constraints' = c
  /\ result' = NoResult
  /\ metrics' = NoMetrics
  /\ newWeights' = <<>>
  /\ convergenceData' = <<>>
  /\ iteration' = 0
  /\ IF TooFewAssets(a)
     THEN /\ pc' = "thrown"
          /\ error' = "Portfolio must contain at least 2 assets"
          /\ covMatrix' = <<>>
          /\ weights' = <<>>
          /\ minWeight' = Zero
          /\ maxWeight' = Zero
     ELSE /\ pc' = "loop"
          /\ error' = NoError
          /\ covMatrix' = calculateCovarianceMatrix(a)
          /\ weights' = UniformWeights(Len(a))
          /\ minWeight' = EffectiveMinWeight(c)
          /\ maxWeight' = EffectiveMaxWeight(c)
  /\ UNCHANGED << ctorRiskFreeRate, ctorMaxIterations, riskFreeRate, maxIterations,
                  other >>

\* optimizePortfolio called by a caller that holds no other state
optimizePortfolio(a, c) == OptimizePortfolioCall(a, c) /\ UNCHANGED appVars

LoopPassWritingCovariance ==
  /\ pc = "loop"
  /\ LoopContinues(iteration, maxIterations)
  /\ LET expectedReturns == ExpectedReturns(assets)
         currentObjective == objectiveFunction(weights, expectedReturns, covMatrix, riskFreeRate)
         learningRate == LearningRate(iteration)
         gradients == calculateGradients(weights, expectedReturns, covMatrix, riskFreeRate)
         clipped == UpdateWeights(weights, gradients, learningRate, minWeight, maxWeight)
         normalized == Normalize(clipped)
         newObjective == objectiveFunction(normalized, expectedReturns, covMatrix, riskFreeRate)
     IN /\ convergenceData' = PushConvergence(convergenceData, currentObjective)
        /\ newWeights' = clipped
        /\ weights' = normalized
        /\ covMatrix' = [i \in 1..Len(assets) |->
                          [j \in 1..Len(assets) |-> Mul(covMatrix[i][j], normalized[j])]]
        /\ IF Converged(newObjective, currentObjective)
           THEN pc' = "final" /\ iteration' = iteration
           ELSE pc' = "loop" /\ iteration' = iteration + 1
  /\ UNCHANGED << ctorRiskFreeRate, ctorMaxIterations, riskFreeRate, maxIterations,
                  assets, constraints, minWeight, maxWeight,
                  result, error, metrics, other >>
  /\ UNCHANGED appVars

\* one pass of the for loop of quantumOptimization
LoopPass ==
  /\ pc = "loop"
  /\ LoopContinues(iteration, maxIterations)
  /\ LET expectedReturns == ExpectedReturns(assets)
         currentObjective == objectiveFunction(weights, expectedReturns, covMatrix, riskFreeRate)
         learningRate == LearningRate(iteration)
         gradients == calculateGradients(weights, expectedReturns, covMatrix, riskFreeRate)
         clipped == UpdateWeights(weights, gradients, learningRate, minWeight, maxWeight)
         normalized == Normalize(clipped)
         newObjective == objectiveFunction(normalized, expectedReturns, covMatrix, riskFreeRate)
     IN /\ convergenceData' = PushConvergence(convergenceData, currentObjective)
        /\ newWeights' = clipped
        /\ weights' = normalized
        /\ IF Converged(newObjective, currentObjective)
           THEN pc' = "final" /\ iteration' = iteration
           ELSE pc' = "loop" /\ iteration' = iteration + 1
  /\ UNCHANGED << ctorRiskFreeRate, ctorMaxIterations, riskFreeRate, maxIterations,
                  assets, constraints, covMatrix, minWeight, maxWeight,
                  result, error, metrics, other >>
  /\ UNCHANGED appVars

\* after the loop: the final metrics and the returned OptimizationResult
ReturnResult ==
  /\ pc = "final" \/ (pc = "loop" /\ ~LoopContinues(iteration, maxIterations))
  /\ result' = FinalResult(weights, convergenceData, assets, covMatrix, riskFreeRate)
  /\ pc' = "returned"
  /\ UNCHANGED << ctorRiskFreeRate, ctorMaxIterations, riskFreeRate, maxIterations,
                  assets, constraints, covMatrix, weights, newWeights,
                  convergenceData, iteration, minWeight, maxWeight, error, metrics,
                  other >>
  /\ UNCHANGED appVars

calculatePortfolioMetrics(a, w) ==
  /\ CallerReady
  /\ metrics' = PortfolioMetrics(a, w, riskFreeRate)
  /\ assets' = a
  /\ weights' = w
  /\ pc' = "returned"
  /\ constraints' = None
  /\ covMatrix' = <<>>
  /\ newWeights' = <<>>
  /\ convergenceData' = <<>>
  /\ iteration' = 0
  /\ minWeight' = Zero
  /\ maxWeight' = Zero
  /\ result' = NoResult
  /\ error' = NoError
  /\ UNCHANGED << ctorRiskFreeRate, ctorMaxIterations, riskFreeRate, maxIterations,
                  other >>
  /\ UNCHANGED appVars

Next ==
  \/ \E a \in AssetLists, c \in ConstraintArgs : optimizePortfolio(a, c)
  \/ LoopPass
  \/ ReturnResult
  \/ \E a \in AssetLists \ { <<>> } :
       \E w \in WeightArgs(Len(a)) : calculatePortfolioMetrics(a, w)

Spec == Init /\ [][Next]_vars

\* a call is between its first loop test and its return
CallRunning == pc \in {"loop", "final"}

\* The loop and the code after it are straight-line code, so a call that is
\* running takes its next step: weak fairness of LoopPass \/ ReturnResult,
\* which is enabled exactly when CallRunning holds.  The condition is
\* WF_vars(LoopPass \/ ReturnResult) with that enabling condition written out.
FairSpec ==
  Spec /\ ([]<>(~CallRunning) \/ []<><<LoopPass \/ ReturnResult>>_vars)

(***************************************************************************)
(* Two calls on one optimizer.  The methods are async: a caller may start  *)
(* a call while another call on the same object has not been awaited, or   *)
(* after it returned.  The calls share the object's fields and nothing     *)
(* else; the variables above hold the locals of the call that is running   *)
(* and `other` those of the other call.                                    *)
(***************************************************************************)
ResumedConvergenceDataShared(f) == convergenceData

\* const convergenceData: number[] = [] is a local of the call: the call
\* that resumes finds its own array
ResumedConvergenceData(f) == f.convergenceData

\* the running call and the other call change places
SwitchCall ==
  /\ other' = Frame
  /\ pc' = other.pc
  /\ assets' = other.assets
  /\ constraints' = other.constraints
  /\ covMatrix' = other.covMatrix
  /\ weights' = other.weights
  /\ newWeights' = other.newWeights
  /\ convergenceData' = ResumedConvergenceData(other)
  /\ iteration' = other.iteration
  /\ minWeight' = other.minWeight
  /\ maxWeight' = other.maxWeight
  /\ result' = other.result
  /\ error' = other.error
  /\ metrics' = other.metrics
  /\ UNCHANGED << ctorRiskFreeRate, ctorMaxIterations, riskFreeRate, maxIterations >>
  /\ UNCHANGED appVars

\* handleOptimize: weightsObject, acc[asset.symbol] = result.optimalWeights[index]
\* for each asset in turn, a later asset of the same symbol overwriting
WeightsObject(a, w) ==
  [sym \in { a[i].symbol : i \in 1..Len(a) } |->
     LET last == CHOOSE i \in 1..Len(a) :
                   /\ a[i].symbol = sym
                   /\ \A j \in 1..Len(a) : a[j].symbol = sym => j <= i
     IN w[last]]

\* the asset lists of the two callers: a pair, a triple and their reorderings
CallAssetLists ==
  { << AssetPool[1], AssetPool[2] >>,
    << AssetPool[2], AssetPool[1] >>,
    << AssetPool[3], AssetPool[4] >>,
    << AssetPool[1], AssetPool[2], AssetPool[3] >>,
    << AssetPool[3], AssetPool[1], AssetPool[2] >>,
    << AssetPool[1] >> }

\* their constraints: absent, or the initial constraints of the component
CallConstraintArgs ==
  { None, Some(Constraints(Some(Dec(5, -2)), Some(Dec(4, -1)))) }

\* the optimizers constructed with a maxIterations argument
InitCalls == Init /\ ctorMaxIterations.some

NextCalls ==
  \/ \E a \in CallAssetLists, c \in CallConstraintArgs : optimizePortfolio(a, c)
  \/ LoopPass
  \/ ReturnResult
  \/ \E a \in CallAssetLists : \E w \in WeightArgs(Len(a)) : calculatePortfolioMetrics(a, w)
  \/ SwitchCall

SpecCalls == InitCalls /\ [][NextCalls]_vars

(***************************************************************************)
(* calculateCovarianceMatrix on its own: the private method applied to     *)
(* every asset list of up to MaxAssets assets drawn from MatrixAssets.     *)
(***************************************************************************)
\* assets with short and with eight-digit volatilities, and one of volatility 0
MatrixAssets ==
  { Asset("AAPL", Dec(12, -2), Dec(25, -2)),
    Asset("BND", Dec(8, -2), Dec(15, -2)),
    Asset("MSFT", Dec(13, -2), Dec(18234567, -8)),
    Asset("TSLA", Dec(18, -2), Dec(45678912, -8)),
    Asset("CASH1", Dec(1, -1), Zero) }

MatrixAssetLists ==
  UNION { [1..n -> MatrixAssets] : n \in 1..MaxAssets }

\* const covMatrix = this.calculateCovarianceMatrix(assets)
CovarianceCall(a) ==
  /\ CallerReady
  /\ assets' = a
  /\ covMatrix' = calculateCovarianceMatrix(a)
  /\ pc' = "returned"
  /\ UNCHANGED << ctorRiskFreeRate, ctorMaxIterations, riskFreeRate, maxIterations,
                  constraints, weights, newWeights, convergenceData, iteration,
                  minWeight, maxWeight, result, error, metrics, other >>
  /\ UNCHANGED appVars

NextMatrix == \E a \in MatrixAssetLists : CovarianceCall(a)

SpecMatrix == Init /\ [][NextMatrix]_vars

(***************************************************************************)
(* ImportExportManager.exportOptimizationResultsToCSV                      *)
(***************************************************************************)
\* a text is the sequence of its characters
DigitChars == << "0", "1", "2", "3", "4", "5", "6", "7", "8", "9" >>

TenTo(d) == IF d = 0 THEN 1 ELSE Pow10[d]

\* the decimal digits of a natural number, without leading zeros
RECURSIVE Digits(_)
Digits(n) ==
  IF n < 10 THEN << DigitChars[n + 1] >>
  ELSE Digits(n \div 10) \o << DigitChars[(n % 10) + 1] >>

\* (index + 1).toString() of an integer
IntToString(n) == IF n < 0 THEN << "-" >> \o Digits(-n) ELSE Digits(n)

\* the integer nearest to |x| * 10^6, the larger one of two equally near
RoundedMicros(x) ==
  LET a == AbsInt(x.m)
  IN IF x.e >= 0 THEN a * TenTo(x.e) * 1000000
     ELSE IF x.e >= -6 THEN a * TenTo(6 + x.e)
     ELSE IF -x.e - 6 > 8 THEN 0
     ELSE (a + (TenTo(-x.e - 6) \div 2)) \div TenTo(-x.e - 6)

\* the integer part and the six decimals of |x| rounded to six decimals
FixedParts(x) ==
  LET a == AbsInt(x.m)
  IN IF x.e >= 0 THEN << a * TenTo(x.e), 0 >>
     ELSE IF x.e >= -6
       THEN << a \div TenTo(-x.e), (a % TenTo(-x.e)) * TenTo(6 + x.e) >>
     ELSE << RoundedMicros(x) \div 1000000, RoundedMicros(x) % 1000000 >>

\* Number.prototype.toFixed(6): "NaN", "Infinity" and "-Infinity" as they are,
\* a finite number as sign, integer part, point and six decimals
ToFixed6(x) ==
  IF IsNaN(x) THEN << "N", "a", "N" >>
  ELSE IF IsInf(x) THEN
    (IF x.m < 0 THEN << "-" >> ELSE << >>) \o << "I", "n", "f", "i", "n", "i", "t", "y" >>
  ELSE (IF x.m < 0 THEN << "-" >> ELSE << >>)
       \o Digits(FixedParts(x)[1]) \o << "." >>
       \o [i \in 1..6 |-> DigitChars[((FixedParts(x)[2] \div TenTo(6 - i)) % 10) + 1]]

\* const headers = ["Iteration", "Sharpe Ratio", "Improvement"]
CsvHeaders ==
  << << "I", "t", "e", "r", "a", "t", "i", "o", "n" >>,
     << "S", "h", "a", "r", "p", "e", " ", "R", "a", "t", "i", "o" >>,
     << "I", "m", "p", "r", "o", "v", "e", "m", "e", "n", "t" >> >>

CsvRowZeroBased(data, index) ==
  << IntToString(index),
     ToFixed6(data[index + 1]),
     IF index > 0 THEN ToFixed6(Sub(data[index + 1], data[index])) ELSE << "0" >> >>

\* the row of convergenceData.map((sharpe, index) => [...]), index from 0
CsvRow(data, index) ==
  << IntToString(index + 1),
     ToFixed6(data[index + 1]),
     IF index > 0 THEN ToFixed6(Sub(data[index + 1], data[index])) ELSE << "0" >> >>

\* row.join(",")
RECURSIVE JoinComma(_)
JoinComma(row) ==
  IF row = << >> THEN << >>
  ELSE IF Len(row) = 1 THEN row[1]
  ELSE row[1] \o << "," >> \o JoinComma(Tail(row))

\* [headers.join(","), ...rows.map((row) => row.join(","))].join("\n"), held
\* as the sequence of its lines
OptimizationResultsCsv(r) ==
  << JoinComma(CsvHeaders) >> \o
  [k \in 1..Len(r.convergenceData) |-> JoinComma(CsvRow(r.convergenceData, k - 1))]

\* the component hands the result of the optimizer to the export
exportOptimizationResultsToCSV ==
  /\ pc = "returned"
  /\ result.some
  /\ csv' = OptimizationResultsCsv(result)
  /\ UNCHANGED << optimizerVars, storageVars, pageVars >>

NextExport ==
  \/ \E a \in AssetLists, c \in ConstraintArgs : optimizePortfolio(a, c)
  \/ LoopPass
  \/ ReturnResult
  \/ exportOptimizationResultsToCSV

SpecExport == Init /\ [][NextExport]_vars

(***************************************************************************)
(* optimizePortfolio with bounds that cannot be kept                       *)
(***************************************************************************)
\* the asset lists of positive volatilities
BoundsAssetLists ==
  { a \in AssetLists : Len(a) >= 1 /\ \A i \in 1..Len(a) : Less(Zero, a[i].volatility) }

\* positive bounds: minWeight above maxWeight, bounds too narrow or too high
\* for two or for three assets, the initial bounds of the component, and the
\* bounds every list can keep
BoundsConstraintArgs ==
  { Some(Constraints(Some(Dec(6, -1)), Some(Dec(4, -1)))),
    Some(Constraints(Some(Dec(4, -1)), Some(Dec(3, -1)))),
    Some(Constraints(Some(Dec(5, -2)), Some(Dec(4, -1)))),
    Some(Constraints(Some(Dec(5, -2)), Some(Dec(3, -1)))),
    Some(Constraints(Some(Dec(4, -1)), Some(Dec(6, -1)))),
    Some(Constraints(Some(Dec(6, -1)), Some(Dec(8, -1)))),
    Some(Constraints(Some(Dec(1, -1)), Some(Dec(9, -1)))) }

NextBounds ==
  \/ \E a \in BoundsAssetLists, c \in BoundsConstraintArgs : optimizePortfolio(a, c)
  \/ LoopPass
  \/ ReturnResult

SpecBounds == Init /\ [][NextBounds]_vars

\* a running call is not left for ever before its next pass or its return
FairSpecBounds ==
  SpecBounds /\ ([]<>(~CallRunning) \/ []<><<LoopPass \/ ReturnResult>>_vars)

(***************************************************************************)
(* PortfolioStorage                                                        *)
(***************************************************************************)
\* the ids generateId has given out
PortfolioIds == { "portfolio_1", "portfolio_2", "portfolio_3" }

\* the instants new Date() can give, in milliseconds
Instants == 1..2

\* a Date object, and the ISO text JSON.stringify writes for it
DateOf(ms) == [kind |-> "Date", ms |-> ms]
ToJSONDate(date) == [kind |-> "string", ms |-> date.ms]

\* new Date(text) of such a text
NewDate(text) == [kind |-> "Date", ms |-> text.ms]

\* JSON.stringify of a number: NaN and the infinities are written as null
JsonNull == [k |-> "null", m |-> 0, e |-> 0]
JsonNumber(x) == IF IsFinite(x) THEN x ELSE JsonNull

\* the weights a portfolio is saved with: none, or a half and a NaN (the
\* weights an optimization of zero-volatility assets returns are NaN)
WeightsToSave == { None, Some(<< Dec(5, -1), NaN >>) }

\* a SavedPortfolio as handleSavePortfolio builds it (the fields storage
\* carries along without reading them are left out but for weights)
SavedPortfolio(id, w, t) ==
  [id |-> id, weights |-> w, createdAt |-> DateOf(t), updatedAt |-> DateOf(t)]

SavedPortfolios ==
  { SavedPortfolio(id, w, t) : id \in PortfolioIds, w \in WeightsToSave, t \in Instants }

\* JSON.stringify(portfolios), held as the array the text writes
JsonStringify(portfolios) ==
  [i \in 1..Len(portfolios) |->
     [id |-> portfolios[i].id,
      weights |-> IF portfolios[i].weights.some
                  THEN Some([j \in 1..Len(portfolios[i].weights.v) |->
                               JsonNumber(portfolios[i].weights.v[j])])
                  ELSE None,
      createdAt |-> ToJSONDate(portfolios[i].createdAt),
      updatedAt |-> ToJSONDate(portfolios[i].updatedAt)]]

\* localStorage.setItem(this.STORAGE_KEY, text)
SetItem(text) == [some |-> TRUE, text |-> text]

\* getAllPortfolios in the browser: [] when nothing is stored, else the parsed
\* array with createdAt and updatedAt made Dates again (the texts setItem
\* stored always parse)
getAllPortfolios(item) ==
  IF ~item.some THEN << >>
  ELSE [i \in 1..Len(item.text) |->
          [item.text[i] EXCEPT !.createdAt = NewDate(item.text[i].createdAt),
                               !.updatedAt = NewDate(item.text[i].updatedAt)]]

FindIndexNever(portfolios, id) == -1

\* portfolios.findIndex((p) => p.id === id), counted from 0, -1 when absent
FindIndex(portfolios, id) ==
  IF \E i \in 1..Len(portfolios) : portfolios[i].id = id
  THEN (CHOOSE i \in 1..Len(portfolios) :
          /\ portfolios[i].id = id
          /\ \A j \in 1..(i - 1) : portfolios[j].id # id) - 1
  ELSE -1

savePortfolio(portfolio, now) ==
  /\ LET portfolios == getAllPortfolios(localStorage)
         existingIndex == FindIndex(portfolios, portfolio.id)
         saved == IF existingIndex >= 0
                  THEN [portfolios EXCEPT ![existingIndex + 1] =
                          [portfolio EXCEPT !.updatedAt = DateOf(now)]]
                  ELSE Append(portfolios, portfolio)
     IN localStorage' = SetItem(JsonStringify(saved))
  /\ UNCHANGED << optimizerVars, exportVars, pageVars >>

deletePortfolio(id) ==
  /\ LET portfolios == getAllPortfolios(localStorage)
         filtered == SelectSeq(portfolios, LAMBDA p : p.id # id)
     IN localStorage' = SetItem(JsonStringify(filtered))
  /\ UNCHANGED << optimizerVars, exportVars, pageVars >>

\* the page constructs its optimizer without arguments
InitStorage == Init /\ ~ctorRiskFreeRate.some /\ ~ctorMaxIterations.some

NextStorage ==
  \/ \E portfolio \in SavedPortfolios, now \in Instants : savePortfolio(portfolio, now)
  \/ \E id \in PortfolioIds : deletePortfolio(id)

SpecStorage == InitStorage /\ [][NextStorage]_vars

(***************************************************************************)
(* PortfolioOptimizer: handleOptimize                                      *)
(***************************************************************************)
\* export const sampleAssets
sampleAssets ==
  << Asset("AAPL", Dec(12, -2), Dec(25, -2)),
     Asset("GOOGL", Dec(14, -2), Dec(28, -2)),
     Asset("MSFT", Dec(11, -2), Dec(22, -2)),
     Asset("TSLA", Dec(18, -2), Dec(45, -2)),
     Asset("SPY", Dec(1, -1), Dec(18, -2)) >>

\* the assets checkAuth shows: the sample assets, the first MaxAssets of them
ShownAssets == SubSeq(sampleAssets, 1, MaxAssets)

\* useState({ minWeight: 0.05, maxWeight: 0.4 })
InitialConstraints == Some(Constraints(Some(Dec(5, -2)), Some(Dec(4, -1))))

\* the ids the database gives to inserted portfolios, in turn
DatabaseIds == << "id_1", "id_2" >>

\* the optimizer is not in a call: event handlers and continuations run only
\* then, a call of the optimizer running to its end without an await
OptimizerIdle == pc = "ready"

\* the promise of optimizer.optimizePortfolio is settled
OptimizerSettled == pc \in { "returned", "thrown" }

\* the locals of the settled call are gone
ReleaseCall ==
  /\ pc' = "ready"
  /\ assets' = << >>
  /\ constraints' = None
  /\ covMatrix' = << >>
  /\ weights' = << >>
  /\ newWeights' = << >>
  /\ convergenceData' = << >>
  /\ iteration' = 0
  /\ minWeight' = Zero
  /\ maxWeight' = Zero
  /\ result' = NoResult
  /\ error' = NoError
  /\ metrics' = NoMetrics
  /\ UNCHANGED << ctorRiskFreeRate, ctorMaxIterations, riskFreeRate, maxIterations,
                  other >>

\* checkAuth for a user without portfolios, or whose portfolios cannot be
\* loaded: the sample assets are shown
checkAuth ==
  /\ loading
  /\ componentAssets' = ShownAssets
  /\ loading' = FALSE
  /\ UNCHANGED << currentPortfolioId, isOptimizing, optimizationResult, database,
                  handlers >>
  /\ UNCHANGED << optimizerVars, exportVars, storageVars >>

\* disabled={isOptimizing || assets.length < 2}
ButtonEnabled == ~loading /\ ~isOptimizing /\ Len(componentAssets) >= 2

SaveCheckOfState(h) == currentPortfolioId # Null

\* if (currentPortfolioId) before saveOptimizationResult: the value the
\* closure of the invocation holds
SaveCheck(h) == handlers[h].currentPortfolioId # Null

\* handleOptimize up to its first await: db.savePortfolio is called when the
\* closure holds no portfolio id, else setIsOptimizing(true) and the optimizer
handleOptimize(h) ==
  /\ OptimizerIdle
  /\ ButtonEnabled
  /\ handlers[h].pc = "idle"
  /\ IF currentPortfolioId = Null
     THEN /\ handlers' =
               [handlers EXCEPT ![h] =
                  [NoInvocation EXCEPT !.pc = "savePortfolio",
                                       !.assets = componentAssets]]
          /\ UNCHANGED << isOptimizing, optimizerVars >>
     ELSE /\ handlers' =
               [handlers EXCEPT ![h] =
                  [NoInvocation EXCEPT !.pc = "optimizer",
                                       !.currentPortfolioId = currentPortfolioId,
                                       !.assets = componentAssets]]
          /\ isOptimizing' = TRUE
          /\ OptimizePortfolioCall(componentAssets, InitialConstraints)
  /\ UNCHANGED << loading, componentAssets, currentPortfolioId, optimizationResult,
                  database >>
  /\ UNCHANGED << exportVars, storageVars >>

\* db.savePortfolio settles: the new id is set and db.saveAssets is called, or
\* the error is logged and the invocation returns
AfterSavePortfolio(h, ok) ==
  /\ OptimizerIdle
  /\ handlers[h].pc = "savePortfolio"
  /\ IF ok /\ Len(database.portfolios) < Len(DatabaseIds)
     THEN LET id == DatabaseIds[Len(database.portfolios) + 1]
          IN /\ database' = [database EXCEPT !.portfolios = Append(@, id)]
             /\ currentPortfolioId' = id
             /\ handlers' = [handlers EXCEPT ![h].pc = "saveAssets", ![h].portfolio = id]
     ELSE /\ handlers' = [handlers EXCEPT ![h].pc = "done"]
          /\ UNCHANGED << database, currentPortfolioId >>
  /\ UNCHANGED << loading, componentAssets, isOptimizing, optimizationResult >>
  /\ UNCHANGED << optimizerVars, exportVars, storageVars >>

\* db.saveAssets settles: setIsOptimizing(true) and the optimizer is called,
\* or the error is logged and the invocation returns
AfterSaveAssets(h, ok) ==
  /\ OptimizerIdle
  /\ handlers[h].pc = "saveAssets"
  /\ IF ok
     THEN /\ database' = [database EXCEPT !.assets =
                            Append(@, [portfolio_id |-> handlers[h].portfolio,
                                       assets |-> handlers[h].assets])]
          /\ isOptimizing' = TRUE
          /\ handlers' = [handlers EXCEPT ![h].pc = "optimizer"]
          /\ OptimizePortfolioCall(handlers[h].assets, InitialConstraints)
     ELSE /\ handlers' = [handlers EXCEPT ![h].pc = "done"]
          /\ UNCHANGED << database, isOptimizing, optimizerVars >>
  /\ UNCHANGED << loading, componentAssets, currentPortfolioId, optimizationResult >>
  /\ UNCHANGED << exportVars, storageVars >>

\* the promise of the optimizer settles: on a result setOptimizationResult,
\* then db.saveOptimizationResult when the check passes; without that call,
\* and on a rejection, the finally block runs
AfterOptimizer(h) ==
  /\ OptimizerSettled
  /\ handlers[h].pc = "optimizer"
  /\ IF pc = "thrown"
     THEN /\ isOptimizing' = FALSE
          /\ handlers' = [handlers EXCEPT ![h].pc = "done"]
          /\ UNCHANGED optimizationResult
     ELSE /\ optimizationResult' = result
          /\ IF SaveCheck(h)
             THEN /\ handlers' = [handlers EXCEPT ![h].pc = "saveOptimizationResult",
                                                  ![h].result = result]
                  /\ UNCHANGED isOptimizing
             ELSE /\ handlers' = [handlers EXCEPT ![h].pc = "done",
                                                  ![h].result = result]
                  /\ isOptimizing' = FALSE
  /\ ReleaseCall
  /\ UNCHANGED << loading, componentAssets, currentPortfolioId, database >>
  /\ UNCHANGED << exportVars, storageVars >>

\* db.saveOptimizationResult settles, with a row or with an error that is
\* logged; the finally block runs
AfterSaveOptimizationResult(h, ok) ==
  /\ OptimizerIdle
  /\ handlers[h].pc = "saveOptimizationResult"
  /\ database' =
       IF ok
       THEN [database EXCEPT !.optimization_results =
               Append(@, [portfolio_id |-> handlers[h].currentPortfolioId,
                          weights |-> WeightsObject(handlers[h].assets,
                                                    handlers[h].result.optimalWeights),
                          sharpe_ratio |-> handlers[h].result.sharpeRatio])]
       ELSE database
  /\ isOptimizing' = FALSE
  /\ handlers' = [handlers EXCEPT ![h].pc = "done"]
  /\ UNCHANGED << loading, componentAssets, currentPortfolioId, optimizationResult >>
  /\ UNCHANGED << optimizerVars, exportVars, storageVars >>

\* the page constructs its optimizer without arguments
InitPage == Init /\ ~ctorRiskFreeRate.some /\ ~ctorMaxIterations.some

NextPage ==
  \/ checkAuth
  \/ \E h \in Clicks : handleOptimize(h)
  \/ LoopPass
  \/ ReturnResult
  \/ \E h \in Clicks, ok \in BOOLEAN : AfterSavePortfolio(h, ok)
  \/ \E h \in Clicks, ok \in BOOLEAN : AfterSaveAssets(h, ok)
  \/ \E h \in Clicks : AfterOptimizer(h)
  \/ \E h \in Clicks, ok \in BOOLEAN : AfterSaveOptimizationResult(h, ok)

SpecPage == InitPage /\ [][NextPage]_vars

\* the continuation of an invocation that waits
Settle(h) ==
  \/ \E ok \in BOOLEAN : AfterSavePortfolio(h, ok)
  \/ \E ok \in BOOLEAN : AfterSaveAssets(h, ok)
  \/ AfterOptimizer(h)
  \/ \E ok \in BOOLEAN : AfterSaveOptimizationResult(h, ok)

\* the continuation of the invocation can run
CanSettle(h) ==
  \/ OptimizerIdle /\ handlers[h].pc \in { "savePortfolio", "saveAssets",
                                           "saveOptimizationResult" }
  \/ OptimizerSettled /\ handlers[h].pc = "optimizer"

\* a running call of the optimizer goes on, every awaited promise settles and
\* its continuation runs
FairSpecPage ==
  /\ SpecPage
  /\ []<>(~CallRunning) \/ []<><<LoopPass \/ ReturnResult>>_vars
  /\ \A h \in Clicks : []<>(~CanSettle(h)) \/ []<><<Settle(h)>>_vars

(***************************************************************************)
(* Properties                                                              *)
(***************************************************************************)
\* an optimizePortfolio call has been made (calculatePortfolioMetrics is the
\* only other call and it alone sets metrics)
OptimizeCalled == pc # "ready" /\ ~metrics.some

\* at least one pass of the loop has completed in the current call
PassCompleted == OptimizeCalled /\ Len(convergenceData) >= 1

AllVolatilitiesPositive(a) == \A i \in 1..Len(a) : Less(Zero, a[i].volatility)

AllVolatilitiesZero(a) == \A i \in 1..Len(a) : a[i].volatility = Zero

\* 1e-6, the tolerance the properties are stated with
ClaimTolerance == Dec(1, -6)

SumsToOne(w) == LessEq(MathAbs(Sub(SeqSum(w, Len(w)), One)), ClaimTolerance)

WithinBand(x, lo, hi) ==
  LessEq(Sub(lo, ClaimTolerance), x) /\ LessEq(x, Add(hi, ClaimTolerance))

AllWithinBand(w, lo, hi) == \A i \in 1..Len(w) : WithinBand(w[i], lo, hi)

\* the bounds the caller supplied, 0 and 1 standing for an absent one
SuppliedMinWeight ==
  IF constraints.some /\ constraints.v.minWeight.some
  THEN constraints.v.minWeight.v ELSE Zero

SuppliedMaxWeight ==
  IF constraints.some /\ constraints.v.maxWeight.some
  THEN constraints.v.maxWeight.v ELSE One

\* the outcome of a call held in frame f is the outcome of that call alone
AloneOutcome(f) ==
  f.result.some =>
    f.result = quantumOptimization(f.assets, f.constraints, riskFreeRate, maxIterations)

\* C1: optimizePortfolio with 0 or 1 assets throws, with no covariance
\* matrix, objective or gradient computed and no OptimizationResult; with
\* exactly 2 assets the call is accepted and the loop runs.
C1_FewAssetsRejected ==
  /\ (OptimizeCalled /\ Len(assets) < 2) =>
       /\ pc = "thrown"
       /\ error = "Portfolio must contain at least 2 assets"
       /\ covMatrix = <<>>
       /\ weights = <<>>
       /\ newWeights = <<>>
       /\ convergenceData = <<>>
       /\ ~result.some
  /\ (OptimizeCalled /\ Len(assets) = 2) =>
       /\ pc \in {"loop", "final", "returned"}
       /\ error = NoError
       /\ Len(covMatrix) = 2
       /\ (pc \in {"final", "returned"} => Len(convergenceData) >= 1)
       /\ (pc = "returned" => result.some)

C1_Witness == pc = "thrown" /\ Len(assets) = 1

\* C2: for n >= 2 assets with all volatilities > 0 the weight vector sums to
\* 1 (within 1e-6) after every loop pass, and so do the returned
\* optimalWeights.
C2_WeightsSumToOne ==
  (Len(assets) >= 2 /\ AllVolatilitiesPositive(assets)) =>
    /\ (PassCompleted => SumsToOne(weights))
    /\ (result.some => SumsToOne(result.optimalWeights))

\* n * x as a number
Times(n, x) == Mul(Dec(n, 0), x)

\* C3: for n >= 2 assets with all volatilities > 0 and constraints
\* 0 <= minWeight <= maxWeight <= 1, every weight lies in
\* [minWeight, maxWeight] (within 1e-6) at every iteration boundary and in
\* the returned optimalWeights.  Stated here for the constraints some weight
\* vector can satisfy (n * minWeight <= 1 <= n * maxWeight), the others
\* being violated by every vector that sums to 1.
C3_WeightsWithinBounds ==
  ( /\ OptimizeCalled
    /\ Len(assets) >= 2
    /\ AllVolatilitiesPositive(assets)
    /\ LessEq(Zero, SuppliedMinWeight)
    /\ LessEq(SuppliedMinWeight, SuppliedMaxWeight)
    /\ LessEq(SuppliedMaxWeight, One)
    /\ LessEq(Times(Len(assets), SuppliedMinWeight), One)
    /\ LessEq(One, Times(Len(assets), SuppliedMaxWeight)) ) =>
    /\ AllWithinBand(weights, SuppliedMinWeight, SuppliedMaxWeight)
    /\ (result.some =>
          AllWithinBand(result.optimalWeights, SuppliedMinWeight, SuppliedMaxWeight))

\* C4: with exactly 2 assets and constraints {minWeight: 0.4, maxWeight: 0.6},
\* after any number of loop passes both weights lie in [0.4, 0.6] and sum
\* to 1, and so do the returned optimalWeights.
C4_TwoAssetBand ==
  ( /\ OptimizeCalled
    /\ Len(assets) = 2
    /\ constraints = Some(Constraints(Some(Dec(4, -1)), Some(Dec(6, -1)))) ) =>
    /\ AllWithinBand(weights, Dec(4, -1), Dec(6, -1))
    /\ SumsToOne(weights)
    /\ (result.some =>
          /\ AllWithinBand(result.optimalWeights, Dec(4, -1), Dec(6, -1))
          /\ SumsToOne(result.optimalWeights))

\* C5: in every returned OptimizationResult, iterations is the length of
\* convergenceData and is at most the optimizer's maxIterations.
C5_IterationsCount ==
  result.some =>
    /\ result.iterations = Len(result.convergenceData)
    /\ result.iterations <= maxIterations
    /\ Len(convergenceData) <= maxIterations

C5_Witness == result.some /\ result.iterations = maxIterations /\ maxIterations = 100

\* C6: optimizePortfolio with 2 assets that both have volatility 0 fails
\* at the first objective evaluation, before any weight update, and returns
\* no OptimizationResult.
C6_DegenerateVolatilityRaised ==
  (OptimizeCalled /\ Len(assets) = 2 /\ AllVolatilitiesZero(assets)) =>
    /\ newWeights = <<>>
    /\ convergenceData = <<>>
    /\ pc \notin {"final", "returned"}
    /\ ~result.some

\* C7: calculatePortfolioMetrics never returns a metrics triple when the
\* portfolio volatility evaluates to 0 (it signals DegenerateVolatility), so
\* no returned sharpeRatio is NaN or infinite.
C7_MetricsDegenerateVolatility ==
  metrics.some => (metrics.volatility # Zero /\ IsFinite(metrics.sharpeRatio))

\* C8: for n >= 2 assets with all volatilities > 0, the returned sharpeRatio
\* is at least the first entry of convergenceData, the Sharpe ratio of the
\* uniform starting weights.
C8_NoRegression ==
  (result.some /\ Len(assets) >= 2 /\ AllVolatilitiesPositive(assets)) =>
    LessEq(result.convergenceData[1], result.sharpeRatio)

\* C9: the risk-free rate of the optimizer is the scalar supplied to the
\* constructor, for every supplied value including 0, and is 0.02 only when
\* none is supplied.
C9_RiskFreeRateSupplied ==
  /\ (ctorRiskFreeRate.some => riskFreeRate = ctorRiskFreeRate.v)
  /\ ((~ctorRiskFreeRate.some) => riskFreeRate = Dec(2, -2))

\* C10: when the constraints argument, or a field of it, is absent, the
\* loop clips with minWeight = 0 for an absent minWeight and maxWeight = 1
\* for an absent maxWeight, the bounds of a call with {minWeight: 0, maxWeight: 1}.
C10_DefaultConstraints ==
  (OptimizeCalled /\ pc # "thrown") =>
    /\ ((~constraints.some \/ ~constraints.v.minWeight.some) => minWeight = Zero)
    /\ ((~constraints.some \/ ~constraints.v.maxWeight.some) => maxWeight = One)
    /\ (constraints = Some(Constraints(Some(Zero), Some(One))) =>
          (minWeight = Zero /\ maxWeight = One))

C10_Witness ==
  /\ pc = "returned"
  /\ result.some
  /\ ~constraints.some
  /\ \E i \in 1..Len(newWeights) : newWeights[i] = One
  /\ \E i \in 1..Len(newWeights) : newWeights[i] = Zero

C13_ResultMetrics ==
  result.some =>
    LET m == PortfolioMetrics(assets, result.optimalWeights, riskFreeRate)
    IN /\ result.expectedReturn = m.expectedReturn
       /\ result.volatility = m.volatility
       /\ result.sharpeRatio = m.sharpeRatio

C13_Witness ==
  /\ result.some
  /\ Len(assets) = 3
  /\ result.iterations = 100
  /\ IsFinite(result.sharpeRatio)
  /\ Less(Zero, result.sharpeRatio)

\* list a taken in the order p: entry i is a[p[i]]
Reordered(a, p) == [i \in 1..Len(a) |-> a[p[i]]]

\* the two calls returned, with the same constraints, and the other call's
\* asset list is the running call's list in another order p
ReorderedCalls(p) ==
  /\ result.some /\ other.result.some
  /\ constraints = other.constraints
  /\ p \in Orders(Len(assets))
  /\ \E i \in 1..Len(assets) : p[i] # i
  /\ other.assets = Reordered(assets, p)

\* x and y are the same number up to rounding: NaN both, or equal, or
\* within 1e-6 of each other relative to their size
SameUpToRounding(x, y) ==
  \/ x = y
  \/ /\ IsFinite(x) /\ IsFinite(y)
     /\ LessEq(MathAbs(Sub(x, y)),
               Mul(ClaimTolerance, MathMax(One, MathMax(MathAbs(x), MathAbs(y)))))

RiskFreeRateAboveReturns(a) ==
  \A i \in 1..Len(a) : Less(a[i].expectedReturn, riskFreeRate)

\* C15: when the risk-free rate is higher than every asset's expected
\* return and every volatility is non-zero, optimizePortfolio raises no
\* error, every entry of convergenceData is finite and the returned
\* sharpeRatio is finite.
C15_HighRiskFreeRate ==
  ( /\ OptimizeCalled
    /\ Len(assets) >= 2
    /\ AllVolatilitiesPositive(assets)
    /\ RiskFreeRateAboveReturns(assets) ) =>
    /\ pc # "thrown"
    /\ error = NoError
    /\ \A k \in 1..Len(convergenceData) : IsFinite(convergenceData[k])
    /\ result.some =>
         /\ IsFinite(result.sharpeRatio)
         /\ \A k \in 1..Len(result.convergenceData) : IsFinite(result.convergenceData[k])

C15_Witness ==
  /\ OptimizeCalled
  /\ Len(assets) >= 2
  /\ AllVolatilitiesPositive(assets)
  /\ RiskFreeRateAboveReturns(assets)
  /\ result.some
  /\ result.iterations = 3
  /\ Less(result.sharpeRatio, Zero)

\* the objective of the weights w of the running call
ObjectiveOf(w) == objectiveFunction(w, ExpectedReturns(assets), covMatrix, riskFreeRate)

\* the convergence test on two objective values, written out
WithinTolerance(newObjective, currentObjective) ==
  Less(MathAbs(Sub(newObjective, currentObjective)), ClaimTolerance)

\* pass k (1-based) of the recorded passes met the convergence test: its
\* currentObjective is -data[k]; its newObjective is the objective of the
\* weights it left, w after the last pass and -data[k + 1] before
PassConverged(data, w, k) ==
  IF k = Len(data)
  THEN WithinTolerance(ObjectiveOf(w), Neg(data[k]))
  ELSE WithinTolerance(Neg(data[k + 1]), Neg(data[k]))

\* the loop has stopped where the claim says, or not yet
StopsAtFirstConvergingPass ==
  OptimizeCalled =>
    /\ \A k \in 1..(Len(convergenceData) - 1) : ~PassConverged(convergenceData, weights, k)
    /\ Len(convergenceData) <= maxIterations
    /\ (pc = "loop" /\ Len(convergenceData) >= 1) =>
         /\ ~PassConverged(convergenceData, weights, Len(convergenceData))
         /\ iteration = Len(convergenceData)
    /\ pc = "final" => PassConverged(convergenceData, weights, Len(convergenceData))
    /\ result.some =>
         /\ result.iterations = Len(convergenceData)
         /\ result.iterations >= 1
         /\ \/ PassConverged(convergenceData, weights, Len(convergenceData))
            \/ result.iterations = maxIterations

\* after the converging pass only the return follows
NoPassAfterConvergence ==
  pc = "final" =>
    /\ pc' = "returned"
    /\ convergenceData' = convergenceData
    /\ weights' = weights
    /\ result'.convergenceData = convergenceData

\* C16: the loop stops at the first pass with |newObjective - currentObjective|
\* < 1e-6, after that pass's Sharpe value was appended; no pass runs after
\* it; without such a pass exactly maxIterations passes run; so iterations
\* = min(maxIterations, 1 + index of the first converging pass), and every
\* call terminates.
C16_StopsAtConvergence ==
  /\ []StopsAtFirstConvergingPass
  /\ [][NoPassAfterConvergence]_vars
  /\ (pc = "loop") ~> (pc = "returned")

C16_Witness ==
  /\ result.some
  /\ result.iterations > 1
  /\ result.iterations < maxIterations
  /\ PassConverged(convergenceData, weights, Len(convergenceData))

\* the Sharpe ratio of the weights w of the running call
SharpeOf(w) == SharpeRatio(w, ExpectedReturns(assets), covMatrix, riskFreeRate)

\* a step leaves convergenceData alone or, in a pass of the loop, appends
\* as entry number iteration the Sharpe ratio of the weights the pass
\* started with
ConvergenceAppendOnly ==
  \/ convergenceData' = convergenceData
  \/ /\ pc = "loop"
     /\ Len(convergenceData) = iteration
     /\ convergenceData' = Append(convergenceData, SharpeOf(weights))
     /\ \A k \in 1..Len(convergenceData) : convergenceData'[k] = convergenceData[k]

\* the trace starts with the uniform weights, has one entry per pass and is
\* returned as recorded
ConvergenceTrace ==
  OptimizeCalled =>
    /\ Len(convergenceData) >= 1 =>
         convergenceData[1] = SharpeOf(UniformWeights(Len(assets)))
    /\ pc = "loop" => Len(convergenceData) = iteration
    /\ pc = "final" => Len(convergenceData) = iteration + 1
    /\ result.some => result.convergenceData = convergenceData

\* C17: convergenceData is an append-only trace in pass order: entry k is
\* the Sharpe ratio of the weights held at the start of pass k, entry 0 that
\* of the uniform weights 1/n, one entry is appended per pass, and no entry
\* is modified, reordered or removed afterwards.
C17_AppendOnlyTrace ==
  /\ []ConvergenceTrace
  /\ [][ConvergenceAppendOnly]_vars

C17_Witness ==
  /\ result.some
  /\ Len(result.convergenceData) = 100
  /\ Less(result.convergenceData[1], result.convergenceData[2])
  /\ Less(result.convergenceData[100], result.convergenceData[99])

\* C18: in every loop pass the next weights are c_i / sum_j c_j with
\* c_i = clip(w_i - learningRate * g_i, minWeight, maxWeight), for the
\* minWeight and maxWeight the caller supplied, whatever their value in
\* [0, 1] (maxWeight = 0 included), 0 and 1 standing for an absent bound;
\* the clip comes before the renormalisation and none follows it.
C18_SinglePassUpdate ==
  [][ (pc = "loop" /\ convergenceData' # convergenceData) =>
        LET gradients == calculateGradients(weights, ExpectedReturns(assets),
                                            covMatrix, riskFreeRate)
            c == [i \in 1..Len(weights) |->
                    Clip(Sub(weights[i], Mul(LearningRate(iteration), gradients[i])),
                         SuppliedMinWeight, SuppliedMaxWeight)]
            sum == SeqSum(c, Len(c))
        IN /\ newWeights' = c
           /\ weights' = [i \in 1..Len(c) |-> Div(c[i], sum)] ]_vars

\* the entries of the covariance matrix of the asset list, as the claim
\* gives them
CovarianceEntries ==
  /\ Len(covMatrix) = Len(assets)
  /\ \A i \in 1..Len(assets) :
       /\ Len(covMatrix[i]) = Len(assets)
       /\ \A j \in 1..Len(assets) :
            covMatrix[i][j] =
              IF i = j
              THEN Mul(assets[i].volatility, assets[i].volatility)
              ELSE Mul(Mul(Dec(3, -1), assets[i].volatility), assets[j].volatility)

NoNegativeEntry ==
  \A i, j \in 1..Len(covMatrix) : LessEq(Zero, covMatrix[i][j])

\* calculateCovarianceMatrix has returned the matrix of the asset list
MatrixReturned == pc = "returned" /\ Len(covMatrix) >= 1

VolatilityOf(w) == PortfolioVolatility(w, calculateCovarianceMatrix(assets))

NonZeroVolatility(w) == IsFinite(VolatilityOf(w)) /\ VolatilityOf(w) # Zero

\* -((sum_i w_i r_i) - riskFreeRate) / sqrt(sum_i sum_j w_i w_j cov[i][j])
NegatedSharpe(w) ==
  LET r == ExpectedReturns(assets)
      c == calculateCovarianceMatrix(assets)
  IN Neg(Div(Sub(PortfolioReturn(w, r, Len(w)), riskFreeRate),
             MathSqrt(PortfolioVariance(w, c, Len(w) * Len(w)))))

\* C20: for every weight vector with non-zero portfolio volatility,
\* objectiveFunction returns the negation of the Sharpe ratio that
\* calculatePortfolioMetrics reports for the same assets and weights,
\* -((sum_i w_i r_i) - riskFreeRate) / sqrt(sum_i sum_j w_i w_j cov[i][j]).
C20_ObjectiveIsNegatedSharpe ==
  /\ ( /\ OptimizeCalled /\ pc # "thrown"
       /\ NonZeroVolatility(weights) ) =>
       /\ ObjectiveOf(weights) = NegatedSharpe(weights)
       /\ ObjectiveOf(weights) =
            Neg(PortfolioMetrics(assets, weights, riskFreeRate).sharpeRatio)
  /\ ( /\ metrics.some
       /\ IsFinite(metrics.volatility) /\ metrics.volatility # Zero ) =>
       /\ objectiveFunction(weights, ExpectedReturns(assets),
                            calculateCovarianceMatrix(assets), riskFreeRate)
            = Neg(metrics.sharpeRatio)
       /\ Neg(metrics.sharpeRatio) = NegatedSharpe(weights)

C20_Witness ==
  /\ OptimizeCalled
  /\ pc = "loop"
  /\ iteration >= 2
  /\ Len(assets) = 3
  /\ NonZeroVolatility(weights)
  /\ Less(ObjectiveOf(weights), Zero)
  /\ \E i, j \in 1..3 : weights[i] # weights[j]

\* the gradient the running call computes for its weights w
GradientsOf(w) == calculateGradients(w, ExpectedReturns(assets), covMatrix, riskFreeRate)

\* 2 * sum_j w_j cov[i][j], the first n terms, each doubled as it is added
RECURSIVE TwiceWeightedCovarianceRow(_, _, _)
TwiceWeightedCovarianceRow(w, i, n) ==
  IF n = 0 THEN Zero
  ELSE Add(TwiceWeightedCovarianceRow(w, i, n - 1), Mul(Mul(Two, w[n]), covMatrix[i][n]))

\* -[r_i * sigma - (R - riskFreeRate) * d_i] / sigma^2 with
\* d_i = (2 * sum_j w_j cov[i][j]) / (2 * sigma)
ClosedFormGradient(w, i) ==
  LET sigma == MathSqrt(PortfolioVariance(w, covMatrix, Len(w) * Len(w)))
      R == PortfolioReturn(w, ExpectedReturns(assets), Len(w))
      d == Div(TwiceWeightedCovarianceRow(w, i, Len(w)), Mul(Two, sigma))
  IN Neg(Div(Sub(Mul(assets[i].expectedReturn, sigma), Mul(Sub(R, riskFreeRate), d)),
             Mul(sigma, sigma)))

\* the step of the central difference and the relative error allowed to it
DifferenceStep == Dec(1, -3)
DifferenceTolerance == Dec(1, -2)

\* w with h added to its i-th weight
Shifted(w, i, h) == [w EXCEPT ![i] = Add(w[i], h)]

\* (objective(w + h e_i) - objective(w - h e_i)) / (2 h)
CentralDifference(w, i) ==
  Div(Sub(ObjectiveOf(Shifted(w, i, DifferenceStep)),
          ObjectiveOf(Shifted(w, i, Neg(DifferenceStep)))),
      Mul(Two, DifferenceStep))

\* the volatility is large against the step, so that the central difference
\* is a fair estimate of the derivative
DifferenceApplies(w) ==
  LessEq(Mul(Dec(1, 1), DifferenceStep), PortfolioVolatility(w, covMatrix))

\* g is the central difference of the objective up to the relative error
AgreesWithDifference(g, w, i) ==
  LessEq(MathAbs(Sub(g, CentralDifference(w, i))),
         Mul(DifferenceTolerance, MathMax(One, MathAbs(g))))

\* C21: for every weight vector with non-zero volatility calculateGradients
\* returns, for each i, -[r_i * sigma - (R - riskFreeRate) * d_i] / sigma^2
\* with d_i = (2 * sum_j w_j cov[i][j]) / (2 * sigma), and that value is the
\* partial derivative of objectiveFunction with respect to w_i, with the sign
\* of the minimized objective: where the volatility is at least ten
\* difference steps it agrees with the central difference of objectiveFunction.
C21_GradientIsObjectiveDerivative ==
  ( /\ OptimizeCalled /\ pc # "thrown"
    /\ IsFinite(PortfolioVolatility(weights, covMatrix))
    /\ PortfolioVolatility(weights, covMatrix) # Zero ) =>
    \A i \in 1..Len(weights) :
      /\ GradientsOf(weights)[i] = ClosedFormGradient(weights, i)
      /\ DifferenceApplies(weights) =>
           AgreesWithDifference(GradientsOf(weights)[i], weights, i)

C21_Witness ==
  /\ OptimizeCalled
  /\ pc = "loop"
  /\ iteration >= 2
  /\ Len(assets) = 3
  /\ DifferenceApplies(weights)
  /\ \E i, j \in 1..3 :
       /\ Less(GradientsOf(weights)[i], Neg(DifferenceTolerance))
       /\ Less(DifferenceTolerance, GradientsOf(weights)[j])

\* the optimizer as its constructor left it
OptimizerAsConstructed ==
  /\ riskFreeRate = CtorRiskFreeRate(ctorRiskFreeRate)
  /\ maxIterations = CtorMaxIterations(ctorMaxIterations)
  /\ tolerance = Dec(1, -6)

\* a step taken inside an optimizePortfolio call: a pass or the return
StepOfCall == CallRunning /\ OptimizeCalled

\* C22: an optimizePortfolio call leaves its inputs and the optimizer
\* unchanged: no step of any call changes riskFreeRate or maxIterations (the
\* tolerance is a fixed value), no step inside a call changes the asset list,
\* an asset or the constraints object, and the covariance matrix built at the
\* start of the call is not written again: it stays the matrix of the assets
\* until the call has returned.
C22_CallLeavesInputsUnchanged ==
  /\ [][/\ riskFreeRate' = riskFreeRate
        /\ maxIterations' = maxIterations
        /\ StepOfCall => /\ assets' = assets
                         /\ constraints' = constraints
                         /\ covMatrix' = covMatrix]_vars
  /\ []((OptimizeCalled /\ pc # "thrown") =>
          /\ covMatrix = calculateCovarianceMatrix(assets)
          /\ OptimizerAsConstructed)

C22_Witness ==
  /\ OptimizeCalled
  /\ pc = "returned"
  /\ result.iterations = 3
  /\ constraints.some
  /\ Len(assets) = 3
  /\ AllVolatilitiesPositive(assets)
  /\ covMatrix = calculateCovarianceMatrix(assets)
  /\ ctorRiskFreeRate.some
  /\ riskFreeRate = ctorRiskFreeRate.v

\* the call has failed at the call itself: an error is raised, no pass has
\* run and nothing is returned
FailedAtCall ==
  /\ pc = "thrown"
  /\ error # NoError
  /\ convergenceData = <<>>
  /\ ~result.some

\* no pass has gone on after an objective evaluation that divided by a
\* degenerate volatility: every value the passes recorded is a finite number
NoPassAfterDegenerateVolatility ==
  \A k \in 1..Len(convergenceData) : IsFinite(convergenceData[k])

\* no number of the returned result is NaN or infinite
ResultIsFinite ==
  /\ IsFinite(result.sharpeRatio)
  /\ IsFinite(result.volatility)
  /\ IsFinite(result.expectedReturn)
  /\ \A i \in 1..Len(result.convergenceData) : IsFinite(result.convergenceData[i])

\* C23: every failure of the optimizer core surfaces to the caller of
\* optimizePortfolio as an error thrown at the call: a call with fewer than 2
\* assets has failed at the call, no pass continues after an objective
\* evaluation with degenerate volatility (the call has failed instead), and no
\* result carrying the NaN or Infinity of a swallowed failure is returned.
C23_FailuresSurface ==
  OptimizeCalled =>
    /\ TooFewAssets(assets) => FailedAtCall
    /\ NoPassAfterDegenerateVolatility
    /\ result.some => ResultIsFinite

\* the cells of a line: the texts between its commas
RECURSIVE SplitComma(_, _)
SplitComma(line, cell) ==
  IF line = << >> THEN << cell >>
  ELSE IF Head(line) = "," THEN << cell >> \o SplitComma(Tail(line), << >>)
  ELSE SplitComma(Tail(line), Append(cell, Head(line)))

\* the value of a digit character, -1 for any other character
DigitValue(ch) ==
  IF \E d \in 1..10 : DigitChars[d] = ch
  THEN (CHOOSE d \in 1..10 : DigitChars[d] = ch) - 1
  ELSE -1

\* the natural number a text of digits writes, -1 for any other text
RECURSIVE ParseNat(_, _)
ParseNat(text, acc) ==
  IF text = << >> THEN acc
  ELSE IF DigitValue(Head(text)) < 0 THEN -1
  ELSE ParseNat(Tail(text), 10 * acc + DigitValue(Head(text)))

\* text is digits, a point and exactly six digits, with or without a sign
IsFixed6(text) ==
  LET body == IF text # << >> /\ Head(text) = "-" THEN Tail(text) ELSE text
  IN /\ Len(body) >= 8
     /\ body[Len(body) - 6] = "."
     /\ ParseNat(SubSeq(body, 1, Len(body) - 7), 0) >= 0
     /\ ParseNat(SubSeq(body, Len(body) - 5, Len(body)), 0) >= 0

\* the number a text of that form writes
ParseFixed6(text) ==
  LET neg == Head(text) = "-"
      body == IF neg THEN Tail(text) ELSE text
      whole == ParseNat(SubSeq(body, 1, Len(body) - 7), 0)
      micros == ParseNat(SubSeq(body, Len(body) - 5, Len(body)), 0)
      magnitude == Add(Norm(whole, 0), Norm(micros, -6))
  IN IF neg THEN Neg(magnitude) ELSE magnitude

\* half of the last decimal written
HalfMicro == Dec(5, -7)

\* the cell carries the number x: to six decimals when x is finite, by name
\* when it is not
Carries(cell, x) ==
  IF IsNaN(x) THEN cell = << "N", "a", "N" >>
  ELSE IF IsInf(x) THEN
    cell = (IF x.m < 0 THEN << "-" >> ELSE << >>)
           \o << "I", "n", "f", "i", "n", "i", "t", "y" >>
  ELSE /\ IsFixed6(cell)
       /\ LessEq(MathAbs(Sub(ParseFixed6(cell), x)), HalfMicro)

\* C24: exportOptimizationResultsToCSV emits, after the header line, exactly
\* one line per convergenceData entry in iteration order; line k has three
\* cells: the iteration number k, the k-th Sharpe value, and the k-th value
\* minus the (k-1)-th value, "0" for k = 1 (numbers written to six decimals).
C24_CsvRows ==
  csv # NoCsv =>
    LET data == result.convergenceData
    IN /\ Len(csv) = Len(data) + 1
       /\ SplitComma(csv[1], << >>) = CsvHeaders
       /\ \A k \in 1..Len(data) :
            LET cells == SplitComma(csv[k + 1], << >>)
            IN /\ Len(cells) = 3
               /\ ParseNat(cells[1], 0) = k
               /\ Carries(cells[2], data[k])
               /\ IF k = 1 THEN cells[3] = << "0" >>
                  ELSE Carries(cells[3], Sub(data[k], data[k - 1]))

C24_Witness ==
  /\ csv # NoCsv
  /\ Len(csv) = 4
  /\ \A k \in 1..3 : IsFinite(result.convergenceData[k])
  /\ Less(result.convergenceData[1], result.convergenceData[2])
  /\ Less(result.convergenceData[3], result.convergenceData[2])
  /\ Head(SplitComma(csv[3], << >>)[3]) # "-"
  /\ Head(SplitComma(csv[4], << >>)[3]) = "-"

\* the caller supplied both bounds and both are positive
PositiveBounds ==
  /\ constraints.some
  /\ constraints.v.minWeight.some /\ Less(Zero, constraints.v.minWeight.v)
  /\ constraints.v.maxWeight.some /\ Less(Zero, constraints.v.maxWeight.v)

\* minWeight > maxWeight
InconsistentBounds == Less(SuppliedMaxWeight, SuppliedMinWeight)

\* n * maxWeight < 1 or n * minWeight > 1
InfeasibleBounds ==
  \/ Less(Times(Len(assets), SuppliedMaxWeight), One)
  \/ Less(One, Times(Len(assets), SuppliedMinWeight))

\* a call the bounds of which cannot be kept
CallWithBadBounds ==
  /\ OptimizeCalled
  /\ Len(assets) >= 2
  /\ AllVolatilitiesPositive(assets)
  /\ PositiveBounds
  /\ InconsistentBounds \/ InfeasibleBounds

SomeWeightOutsideBounds(w) ==
  \E i \in 1..Len(w) : Less(w[i], SuppliedMinWeight) \/ Less(SuppliedMaxWeight, w[i])

\* C25: optimizePortfolio never rejects a constraints object: a call with at
\* least 2 assets of positive volatility and positive bounds that are
\* inconsistent or infeasible does not throw, it returns an OptimizationResult,
\* the returned weights sum to 1 and, the bounds being infeasible, at least one
\* of them lies outside [minWeight, maxWeight].
C25_BadBoundsNotRejected ==
  /\ [](CallWithBadBounds =>
          /\ pc # "thrown"
          /\ error = NoError
          /\ result.some =>
               /\ \A i \in 1..Len(assets) : IsFinite(result.optimalWeights[i])
               /\ SumsToOne(result.optimalWeights)
               /\ InfeasibleBounds => SomeWeightOutsideBounds(result.optimalWeights))
  /\ (CallWithBadBounds ~> result.some)

C25_Witness ==
  /\ CallWithBadBounds
  /\ ~InconsistentBounds
  /\ Len(assets) = 3
  /\ result.some
  /\ result.iterations >= 3
  /\ SumsToOne(result.optimalWeights)
  /\ \E i, j \in 1..3 :
       /\ Less(SuppliedMaxWeight, result.optimalWeights[i])
       /\ LessEq(result.optimalWeights[j], SuppliedMaxWeight)

\* the stored list, as getAllPortfolios reads it
StoredList == getAllPortfolios(localStorage)

HasId(list, id) == \E i \in 1..Len(list) : list[i].id = id

\* the position of the entry of that id
PositionOf(list, id) == CHOOSE i \in 1..Len(list) : list[i].id = id

AtMostOnePerId(list) ==
  \A i, j \in 1..Len(list) : list[i].id = list[j].id => i = j

\* the entry holds the portfolio as it was handed to savePortfolio
HoldsPortfolio(entry, portfolio) ==
  /\ entry.id = portfolio.id
  /\ entry.createdAt = portfolio.createdAt
  /\ entry.weights.some = portfolio.weights.some
  /\ entry.weights.some =>
       /\ Len(entry.weights.v) = Len(portfolio.weights.v)
       /\ \A j \in 1..Len(entry.weights.v) :
            IsFinite(portfolio.weights.v[j]) => entry.weights.v[j] = portfolio.weights.v[j]

\* savePortfolio with a stored id replaces that entry where it stands, with a
\* new id it appends one entry; the other entries stay as they are
SaveEffect(old, new, portfolio) ==
  IF HasId(old, portfolio.id)
  THEN /\ Len(new) = Len(old)
       /\ \A i \in 1..Len(old) :
            IF i = PositionOf(old, portfolio.id)
            THEN HoldsPortfolio(new[i], portfolio)
            ELSE new[i] = old[i]
  ELSE /\ Len(new) = Len(old) + 1
       /\ HoldsPortfolio(new[Len(new)], portfolio)
       /\ new[Len(new)].updatedAt = portfolio.updatedAt
       /\ \A i \in 1..Len(old) : new[i] = old[i]

\* deletePortfolio removes the entry of the id and keeps the others in their
\* order; without such an entry the list stays as it is
DeleteEffect(old, new, id) ==
  IF HasId(old, id)
  THEN /\ Len(new) = Len(old) - 1
       /\ \A i \in 1..Len(new) :
            new[i] = IF i < PositionOf(old, id) THEN old[i] ELSE old[i + 1]
  ELSE new = old

\* C26: starting from an empty store, after any sequence of savePortfolio and
\* deletePortfolio calls the stored list holds at most one portfolio per id:
\* savePortfolio with a stored id replaces that entry in place (same position,
\* same length), with a new id it appends one entry, and deletePortfolio(id)
\* removes the entry of that id, leaves the other entries and their order
\* unchanged, and changes nothing when the id is absent.
C26_OnePortfolioPerId ==
  /\ [](AtMostOnePerId(StoredList))
  /\ [][\A portfolio \in SavedPortfolios, now \in Instants :
          savePortfolio(portfolio, now) =>
            SaveEffect(StoredList, StoredList', portfolio)]_vars
  /\ [][\A id \in PortfolioIds :
          deletePortfolio(id) => DeleteEffect(StoredList, StoredList', id)]_vars

C26_Witness ==
  /\ Len(StoredList) = 3
  /\ AtMostOnePerId(StoredList)
  /\ StoredList[1].id = "portfolio_3"
  /\ StoredList[3].id = "portfolio_2"
  /\ StoredList[1].updatedAt # StoredList[1].createdAt
  /\ StoredList[3].weights.some
  /\ StoredList[3].weights.v = << Dec(5, -1), JsonNull >>

\* the invocation ran while currentPortfolioId was null: its closure holds null
RanWithoutPortfolio(h) ==
  handlers[h].pc # "idle" /\ handlers[h].currentPortfolioId = Null

\* the invocation has reached the optimizer: it waits for it, or is past it
AtOptimizer(h) == handlers[h].pc = "optimizer"
PastOptimizer(h) == handlers[h].pc = "saveOptimizationResult"

\* the invocation has created its portfolio and saved the assets to it
CreatedPortfolio(h) ==
  /\ handlers[h].portfolio # Null
  /\ \E i \in 1..Len(database.portfolios) : database.portfolios[i] = handlers[h].portfolio
  /\ \E i \in 1..Len(database.assets) :
       /\ database.assets[i].portfolio_id = handlers[h].portfolio
       /\ database.assets[i].assets = handlers[h].assets

\* the rows of optimization_results written for the portfolio
ResultRowsOf(id) ==
  { i \in 1..Len(database.optimization_results) :
      database.optimization_results[i].portfolio_id = id }

\* an invocation that ran without a portfolio id never waits for
\* saveOptimizationResult; when it reaches the optimizer it has created its
\* portfolio and saved the assets, and no result row exists for that portfolio
\* unless another invocation ran with its id
NoSaveInThatInvocation ==
  \A h \in Clicks :
    RanWithoutPortfolio(h) =>
      /\ ~PastOptimizer(h)
      /\ (AtOptimizer(h) \/ handlers[h].result.some) => CreatedPortfolio(h)
      /\ (\A g \in Clicks : handlers[g].currentPortfolioId # handlers[h].portfolio)
           => ResultRowsOf(handlers[h].portfolio) = { }

\* the step in which such an invocation leaves the optimizer ends it, although
\* currentPortfolioId holds an id by then; on a result the result is set in
\* the state of the component
LeavesOptimizerWithoutSave ==
  \A h \in Clicks :
    (RanWithoutPortfolio(h) /\ AtOptimizer(h) /\ ~AtOptimizer(h)') =>
      /\ currentPortfolioId # Null
      /\ handlers'[h].pc = "done"
      /\ database' = database
      /\ result.some => (optimizationResult' = result /\ optimizationResult'.some)

\* the step that ends an invocation which reached the optimizer leaves
\* isOptimizing false
EndResetsIsOptimizing ==
  \A h \in Clicks :
    ((AtOptimizer(h) \/ PastOptimizer(h)) /\ handlers'[h].pc = "done") =>
      isOptimizing' = FALSE

\* C27: when handleOptimize runs while currentPortfolioId is null it creates a
\* portfolio and saves the assets, runs the optimizer and sets the result in
\* the state of the component, but does not call saveOptimizationResult in
\* that invocation, the check reading the currentPortfolioId its closure holds;
\* and every invocation that reaches the optimizer comes to its end with
\* isOptimizing reset to false, whether the optimizer or the save succeeds or
\* throws.
C27_HandleOptimizeStaleId ==
  /\ []NoSaveInThatInvocation
  /\ [][LeavesOptimizerWithoutSave /\ EndResetsIsOptimizing]_vars
  /\ \A h \in Clicks :
       (AtOptimizer(h) \/ PastOptimizer(h)) ~> (handlers[h].pc = "done")

C27_Witness ==
  /\ handlers["first"].pc = "done"
  /\ RanWithoutPortfolio("first")
  /\ handlers["first"].result.some
  /\ handlers["first"].portfolio = "id_1"
  /\ handlers["second"].pc = "done"
  /\ handlers["second"].currentPortfolioId = "id_1"
  /\ Len(database.optimization_results) = 1
  /\ optimizationResult.some
  /\ ~isOptimizing

====
